---- MODULE Spec2Model ----
(***************************************************************************)
(* Simulated annealing over the four shift amounts of the "saftey" hash    *)
(* (goodness.cpp).  Machine words are modelled as the set of positions of  *)
(* their 1-bits, so that XOR, right shift and masking are exact at full    *)
(* width.  Energies are collision counts (integers, -1 for the I/O         *)
(* sentinel).  A probability p in [0,1] is kept as the exponent x of       *)
(* p = exp(-x), with the two values a float saturates to (0 and 1) kept    *)
(* apart.                                                                  *)
(***************************************************************************)
EXTENDS Integers, Sequences, FiniteSets, TLC

\* ------------------------------------------------------------------ bounds
MaxKmax == 2
MaxCodes == 3
MaxWordLen == 7
MaxArgs == 2

\* -------------------------------------------------------- program constants
UnsignedLongBits == 64
UnsignedIntBits == 32
MinShift == 0
MaxShift == 31

VARIABLES
    pc,         \* position of anneal: "start", "loop", "done"
    s,          \* working State
    e,          \* energy of the working State
    sbest,      \* best State found
    ebest,      \* energy of sbest
    k,          \* energy evaluation count
    kmax,       \* iteration budget
    emax,       \* target energy (a rational num/den)
    size,       \* table size
    file,       \* the "hashed" data source: [ok, codes]
    ret,        \* the State returned by anneal (NoState before the return)
    snew,       \* the neighbor picked in the latest iteration
    enew,       \* its energy
    eseed,      \* history: energy evaluated for the seed
    evalMin,    \* history: least energy evaluated so far in the run
    iters,      \* history: number of times the loop body has run
    shiftUB,    \* what an out-of-range shift count does in this build
    phase,      \* position of a single call of one of the functions
    arg,        \* the arguments of that call
    res         \* what the call returned

annealVars == <<pc, s, e, sbest, ebest, k, kmax, emax, size, file, ret, snew, enew, eseed, evalMin, iters>>

callVars == <<phase, arg, res>>

vars == <<annealVars, shiftUB, callVars>>

\* -------------------------------------------------------------- machine words
\* A word is the set of the positions of its 1-bits.
\* the bits of n >= 0 placed from position i upwards
RECURSIVE BitsFrom(_, _)
BitsFrom(n, i) ==
    IF n = 0 THEN {}
    ELSE (IF n % 2 = 1 THEN {i} ELSE {}) \cup BitsFrom(n \div 2, i + 1)

BitsOf(n) ==
    BitsFrom(n, 0)

Xor(x, y) ==
    (x \ y) \cup (y \ x)

\* h >> n on an unsigned long.  A count outside 0..63 is undefined behaviour:
\* the build either masks the count (x86 shift instructions) or yields 0.
Shr(h, n) ==
    IF n >= 0 /\ n < UnsignedLongBits
    THEN {i - n : i \in {j \in h : j >= n}}
    ELSE IF shiftUB = "mask"
         THEN {i - (n % UnsignedLongBits) : i \in {j \in h : j >= n % UnsignedLongBits}}
         ELSE {}

\* h >> n on an unsigned int, in the variant whose safteyHash takes one.  A
\* count outside 0..31 is undefined behaviour, with the same two outcomes.
ShrUInt(h, n) ==
    IF n >= 0 /\ n < UnsignedIntBits
    THEN {i - n : i \in {j \in h : j >= n}}
    ELSE IF shiftUB = "mask"
         THEN {i - (n % UnsignedIntBits) : i \in {j \in h : j >= n % UnsignedIntBits}}
         ELSE {}

\* ------------------------------------------------------------ hash primitives
\* the hash itself is the index
indexFor_NoMask(h, length) ==
    h

indexFor_NoMinusOne(h, length) ==
    h \cap BitsOf(length)

indexFor(h, length) ==
    h \cap BitsOf(length - 1)

safteyHash(h, a, b, c, d) ==
    LET h1 == Xor(Xor(h, Shr(h, a)), Shr(h, b))
    IN  Xor(Xor(h1, Shr(h1, c)), Shr(h1, d))

\* int safteyHash(unsigned int h, int a, int b, int c, int d)
safteyHashUInt(h, a, b, c, d) ==
    LET h1 == Xor(Xor(h, ShrUInt(h, a)), ShrUInt(h, b))
    IN  Xor(Xor(h1, ShrUInt(h1, c)), ShrUInt(h1, d))

\* ------------------------------------------------------------------- State
State(a, b, c, d) ==
    [a |-> a, b |-> b, c |-> c, d |-> d]

NoState == [a |-> -1, b |-> -1, c |-> -1, d |-> -1]

Clamp(v, min, max) ==
    IF v > max THEN max ELSE IF v < min THEN min ELSE v

\* the wrap-around variant left commented out in the source
Wrap(v, min, max) ==
    IF v > max THEN v % max ELSE IF v < min THEN v + max ELSE v

verifyState_Wrap(state, min, max) ==
    [a |-> Wrap(state.a, min, max), b |-> Wrap(state.b, min, max),
     c |-> Wrap(state.c, min, max), d |-> Wrap(state.d, min, max)]

verifyState(state, min, max) ==
    [a |-> Clamp(state.a, min, max), b |-> Clamp(state.b, min, max),
     c |-> Clamp(state.c, min, max), d |-> Clamp(state.d, min, max)]

\* the last case steps c again instead of d
getNeightbor_NeverD(state, varToChange, increment, toAdd) ==
    LET step == IF increment THEN toAdd ELSE 0 - toAdd
        moved == CASE varToChange = 0 -> [state EXCEPT !.a = @ + step]
                   [] varToChange = 1 -> [state EXCEPT !.b = @ + step]
                   [] varToChange = 2 -> [state EXCEPT !.c = @ + step]
                   [] varToChange = 3 -> [state EXCEPT !.c = @ + step]
    IN  verifyState(moved, MinShift, MaxShift)

\* varToChange = rand() % 4, increment = rand() % 2, toAdd = rand() % 6 + 1
getNeightbor(state, varToChange, increment, toAdd) ==
    LET step == IF increment THEN toAdd ELSE 0 - toAdd
        moved == CASE varToChange = 0 -> [state EXCEPT !.a = @ + step]
                   [] varToChange = 1 -> [state EXCEPT !.b = @ + step]
                   [] varToChange = 2 -> [state EXCEPT !.c = @ + step]
                   [] varToChange = 3 -> [state EXCEPT !.d = @ + step]
    IN  verifyState(moved, MinShift, MaxShift)

\* ------------------------------------------------------------------ energy
\* the collision table: bucket index -> occupancy beyond the first hit
EmptyRecord == [i \in {} |-> 0]

freshRecord_Stale(leftover) ==
    leftover

\* map<unsigned long,int> collisionRecord is a local of calcEnergy: whatever
\* an earlier call left behind, a call starts from the empty map
freshRecord(leftover) ==
    EmptyRecord

recordCode_CountsFirstHit(rec, code, state, size_) ==
    LET temp == indexFor(safteyHash(code, state.a, state.b, state.c, state.d), size_)
    IN  IF temp \notin DOMAIN rec
        THEN [i \in DOMAIN rec \cup {temp} |-> IF i = temp THEN 1 ELSE rec[i]]
        ELSE [rec EXCEPT ![temp] = @ + 1]

\* one pass of the read loop body for one code
recordCode(rec, code, state, size_) ==
    LET temp == indexFor(safteyHash(code, state.a, state.b, state.c, state.d), size_)
    IN  IF temp \notin DOMAIN rec
        THEN [i \in DOMAIN rec \cup {temp} |-> IF i = temp THEN 0 ELSE rec[i]]
        ELSE [rec EXCEPT ![temp] = @ + 1]

RECURSIVE recordAll(_, _, _, _)
recordAll(rec, codes, state, size_) ==
    IF codes = <<>> THEN rec
    ELSE recordAll(recordCode(rec, Head(codes), state, size_), Tail(codes), state, size_)

RECURSIVE sumRecord(_)
sumRecord(rec) ==
    IF DOMAIN rec = {} THEN 0
    ELSE LET i == CHOOSE j \in DOMAIN rec : TRUE
         IN  rec[i] + sumRecord([j \in DOMAIN rec \ {i} |-> rec[j]])

IOSentinel == -1

calcEnergyAfter_NoFailCheck(leftover, f, state, size_) ==
    sumRecord(recordAll(freshRecord(leftover), f.codes, state, size_))

\* calcEnergy called when an earlier call has left the table `leftover`
calcEnergyAfter(leftover, f, state, size_) ==
    IF ~f.ok THEN IOSentinel
    ELSE sumRecord(recordAll(freshRecord(leftover), f.codes, state, size_))

calcEnergy(f, state, size_) ==
    calcEnergyAfter(EmptyRecord, f, state, size_)

\* The variant of calcEnergy that divides the sum by the number of occupied
\* buckets.  The result is the quotient num/den of two doubles: den = 0 with
\* num = 0 is 0.0/0.0, a NaN.
calcEnergyMean(f, state, size_) ==
    IF ~f.ok THEN [num |-> IOSentinel, den |-> 1]
    ELSE LET rec == recordAll(EmptyRecord, f.codes, state, size_)
         IN  [num |-> sumRecord(rec), den |-> Cardinality(DOMAIN rec)]

\* ---------------------------------------------------------------- schedule
\* A temperature is the rational num/den; den = 0 is +infinity (100.0/0.0).
getTemp(k_, kmax_) ==
    [num |-> 100 * kmax_, den |-> k_]

\* n1/d1 < n2/d2 for non-negative rationals, without forming the products
RECURSIVE RatLess(_, _, _, _)
RatLess(n1, d1, n2, d2) ==
    LET q1 == n1 \div d1
        q2 == n2 \div d2
        r1 == n1 % d1
        r2 == n2 % d2
    IN  IF q1 # q2 THEN q1 < q2
        ELSE IF r2 = 0 THEN FALSE
        ELSE IF r1 = 0 THEN TRUE
        ELSE RatLess(d2, r2, d1, r1)

POne == [cls |-> "one", n |-> 0, d |-> 1]
PZero == [cls |-> "zero", n |-> 0, d |-> 1]

\* exp(-n/d), d > 0, computed in double and returned as a float.  Above
\* 1 - 2^-25 (n/d <= 2^-25) the result rounds to 1.0f; below 2^-150 (n/d
\* beyond 150 ln 2 = 103.97.., taken here from 104 on) it rounds to 0.0f.  The argument of exp is never positive in
\* pOfAccept; the two last cases say what a positive one would give.
expNeg(n, d) ==
    IF n >= 0
    THEN IF n = 0 \/ n <= d \div 33554432 THEN POne
         ELSE IF n \div 104 >= d THEN PZero
         ELSE [cls |-> "mid", n |-> n, d |-> d]
    ELSE IF (0 - n) <= d \div 33554432 THEN POne
         ELSE [cls |-> "above", n |-> 0 - n, d |-> d]

\* if (newEnergy < currentEnergy): the always-accept branch of pOfAccept
isImproving(currentEnergy, newEnergy) ==
    newEnergy < currentEnergy

\* the exponent is not divided by the temperature
pOfAccept_NoTemp(currentEnergy, newEnergy, temp) ==
    IF isImproving(currentEnergy, newEnergy) THEN POne
    ELSE expNeg(newEnergy - currentEnergy, 1)

pOfAccept_NoShortcut(currentEnergy, newEnergy, temp) ==
    expNeg((newEnergy - currentEnergy) * temp.den, temp.num)

pOfAccept_PlusSign(currentEnergy, newEnergy, temp) ==
    IF isImproving(currentEnergy, newEnergy) THEN POne
    ELSE expNeg((currentEnergy - newEnergy) * temp.den, temp.num)

pOfAccept(currentEnergy, newEnergy, temp) ==
    IF isImproving(currentEnergy, newEnergy) THEN POne
    ELSE expNeg((newEnergy - currentEnergy) * temp.den, temp.num)

ClassRank(p) ==
    CASE p.cls = "zero" -> 0
      [] p.cls = "mid" -> 1
      [] p.cls = "one" -> 2
      [] p.cls = "above" -> 3

\* p < q for two values of exp
PLess(p, q) ==
    IF ClassRank(p) # ClassRank(q) THEN ClassRank(p) < ClassRank(q)
    ELSE CASE p.cls = "mid" -> RatLess(q.n, q.d, p.n, p.d)
           [] p.cls = "above" -> RatLess(p.n, p.d, q.n, q.d)
           [] OTHER -> FALSE

\* rand() / RAND_MAX: 0.0 and 1.0 included
RandomSamples ==
    {PZero, POne, [cls |-> "mid", n |-> 1, d |-> 100], [cls |-> "mid", n |-> 1, d |-> 1]}

\* the comparison turned round
AboveTarget_Reversed(e_, emax_) ==
    e_ * emax_.den < emax_.num

AboveTarget_OrEqual(e_, emax_) ==
    e_ * emax_.den >= emax_.num

\* e > emax, emax a rational
AboveTarget(e_, emax_) ==
    e_ * emax_.den > emax_.num

Min(x, y) ==
    IF x < y THEN x ELSE y

\* ------------------------------------------------------------------ inputs
Seeds == {State(20, 0, 1, 31), State(3, 45, 2, 2)}

\* 0.2 (medTest) and 1; on collision counts 0.0 (largeTest) decides as 0.2 does
EmaxChoices == {[num |-> 1, den |-> 5], [num |-> 1, den |-> 1]}

TableSizes == {4}

\* the codes 1, 2, .., n
SequentialCodes(n) ==
    [i \in 1..n |-> BitsOf(i)]

CodeFiles ==
    {[ok |-> TRUE, codes |-> SequentialCodes(n)] : n \in 0..MaxCodes}

\* ------------------------------------------------------------------ anneal
nextCount_Stuck(k_) ==
    k_

\* k++
nextCount(k_) ==
    k_ + 1

isNewBest_Latest(enew_, ebest_) ==
    TRUE

\* the best is looked at only when the neighbor has been adopted
isNewBest_IfAdopted(enew_, ebest_) ==
    enew_ < ebest_ /\ s' = snew'

\* the comparison turned round
isNewBest_Reversed(enew_, ebest_) ==
    enew_ > ebest_

isNewBest_OrEqual(enew_, ebest_) ==
    enew_ <= ebest_

\* if (enew < ebest)
isNewBest(enew_, ebest_) ==
    enew_ < ebest_

annealResult_Working(s_, sbest_) ==
    s_

\* return sbest
annealResult(s_, sbest_) ==
    sbest_

CallIdle ==
    /\ phase = "none"
    /\ arg = <<>>
    /\ res = <<>>

Init ==
    /\ pc = "start"
    /\ s \in Seeds
    /\ kmax \in 0..MaxKmax
    /\ emax \in EmaxChoices
    /\ size \in TableSizes
    /\ file \in CodeFiles
    /\ shiftUB = "mask"
    /\ e = 0 /\ ebest = 0 /\ sbest = NoState /\ k = 0
    /\ ret = NoState /\ eseed = 0 /\ evalMin = 0 /\ iters = 0
    /\ snew = NoState /\ enew = 0
    /\ CallIdle

AnnealStart ==
    /\ pc = "start"
    /\ e' = calcEnergy(file, s, size)
    /\ sbest' = s
    /\ ebest' = e'
    /\ k' = 0
    /\ eseed' = e'
    /\ evalMin' = e'
    /\ pc' = "loop"
    /\ UNCHANGED <<s, kmax, emax, size, file, ret, snew, enew, iters, shiftUB, callVars>>

AnnealIterate ==
    /\ pc = "loop"
    /\ k < kmax /\ AboveTarget(e, emax)
    /\ \E varToChange \in 0..3, increment \in BOOLEAN, toAdd \in 1..6 :
         LET T == getTemp(k, kmax)
         IN  /\ snew' = getNeightbor(s, varToChange, increment, toAdd)
             /\ enew' = calcEnergy(file, snew', size)
             /\ \E random \in RandomSamples :
                  LET p == pOfAccept(e, enew', T)
                  IN  /\ s' = IF PLess(random, p) THEN snew' ELSE s
                      /\ e' = IF PLess(random, p) THEN enew' ELSE e
             /\ sbest' = IF isNewBest(enew', ebest) THEN snew' ELSE sbest
             /\ ebest' = IF isNewBest(enew', ebest) THEN enew' ELSE ebest
             /\ evalMin' = Min(evalMin, enew')
    /\ k' = nextCount(k)
    /\ iters' = iters + 1
    /\ UNCHANGED <<pc, kmax, emax, size, file, ret, eseed, shiftUB, callVars>>

AnnealReturn ==
    /\ pc = "loop"
    /\ ~(k < kmax /\ AboveTarget(e, emax))
    /\ ret' = annealResult(s, sbest)
    /\ pc' = "done"
    /\ UNCHANGED <<s, e, sbest, ebest, k, kmax, emax, size, file, snew, enew, eseed, evalMin, iters, shiftUB, callVars>>

\* the environment removes or locks the "hashed" file before or during a run
SourceLost ==
    /\ pc \in {"start", "loop"}
    /\ file.ok
    /\ file' = [file EXCEPT !.ok = FALSE]
    /\ UNCHANGED <<pc, s, e, sbest, ebest, k, kmax, emax, size, ret, snew, enew, eseed, evalMin, iters, shiftUB, callVars>>

Next ==
    \/ AnnealStart
    \/ AnnealIterate
    \/ AnnealReturn
    \/ SourceLost

Spec == Init /\ [][Next]_vars

\* The control skeleton of anneal's three steps.  On the behaviours of Spec a
\* step is an AnnealProgress step exactly when it is AnnealStart,
\* AnnealIterate or AnnealReturn, and it is enabled exactly when they are.
AnnealProgress ==
    \/ pc = "start" /\ pc' = "loop" /\ k' = 0
    \/ pc = "loop" /\ k < kmax /\ AboveTarget(e, emax) /\ pc' = "loop" /\ k' = nextCount(k)
    \/ pc = "loop" /\ ~(k < kmax /\ AboveTarget(e, emax)) /\ pc' = "done" /\ k' = k

\* anneal is straight-line sequential code: a step that can be taken is taken
FairSpec == Spec /\ WF_<<pc, k>>(AnnealProgress)

\* C1: anneal always terminates: the loop body runs at most kmax times, k
\* starts at 0, grows by exactly 1 per iteration and never in any other
\* step, and the run reaches its return.
AnnealTerminates ==
    /\ [](iters = k /\ k >= 0 /\ k <= kmax)
    /\ [][k' = k \/ (k' = k + 1 /\ iters' = iters + 1)]_vars
    /\ <>(pc = "done")

BudgetExhausted ==
    pc = "done" /\ kmax = MaxKmax /\ iters = kmax /\ AboveTarget(e, emax)

\* C2: no step of the loop raises ebest, whether or not the neighbor was
\* adopted as the working state.
BestEnergyNonIncreasing ==
    [][pc = "loop" => ebest' <= ebest]_vars

BestImprovedNotAdopted ==
    pc = "loop" /\ k > 0 /\ ebest < eseed /\ e > ebest

\* C3: anneal returns sbest, whose energy is the least of the energies
\* evaluated in the run (seed and neighbors), hence at most the seed's.
ReturnsBestEvaluated ==
    pc = "done" =>
        /\ ret = sbest
        /\ ebest = evalMin
        /\ ebest <= eseed
        /\ file.ok => calcEnergy(file, ret, size) = evalMin

ReturnedBestNotWorking ==
    pc = "done" /\ ret # s /\ ebest < e /\ ebest < eseed /\ file.ok

\* every field of the State is a shift amount in [0,31]
InShiftRange(state) ==
    \A f \in {"a", "b", "c", "d"} : state[f] >= MinShift /\ state[f] <= MaxShift

\* C11: once the seed has been evaluated, the working State s and the best
\* State sbest have all four fields in [0,31] at every point of the run, and
\* so has the State anneal returns.
StatesInShiftRange ==
    pc \in {"loop", "done"} =>
        /\ InShiftRange(s)
        /\ InShiftRange(sbest)
        /\ pc = "done" => InShiftRange(ret)

\* C13: the I/O sentinel never becomes the current energy e or the best
\* energy ebest, so the State whose evaluation failed is never the sbest that
\* anneal returns.
SentinelNeverAnEnergy ==
    pc \in {"loop", "done"} => e # IOSentinel /\ ebest # IOSentinel

\* C18: in every iteration in which the neighbor's energy is strictly lower
\* than the current working energy, the neighbor becomes the working state,
\* whatever random sample is drawn.
ImprovingNeighborAdopted ==
    [][pc = "loop" /\ k' = k + 1 /\ enew' < e => s' = snew' /\ e' = enew']_vars

\* C19: comparisons of energies are strict.  A neighbor whose energy equals
\* ebest leaves sbest and ebest as they are, so sbest stays the earliest State
\* that reached ebest; a neighbor whose energy equals the working energy e
\* does not take the always-accept branch of pOfAccept.
TiesAreNotImprovements ==
    [][pc = "loop" /\ k' = k + 1 =>
          /\ enew' = ebest => sbest' = sbest /\ ebest' = ebest
          /\ sbest' # sbest => ebest' < ebest
          /\ enew' = e => ~isImproving(e, enew')]_vars

TieWithBestAndWorking ==
    /\ pc = "loop" /\ k > 0
    /\ enew = ebest /\ snew # sbest
    /\ enew = e /\ snew # s

\* C20: in every iteration sbest and ebest become the neighbor and its energy
\* exactly when enew < ebest, whether the neighbor was adopted as the working
\* state or rejected; when enew >= ebest they keep their values, even if the
\* neighbor was adopted.
BestTrackingDecoupled ==
    [][pc = "loop" /\ k' = k + 1 =>
          IF enew' < ebest
          THEN sbest' = snew' /\ ebest' = enew'
          ELSE sbest' = sbest /\ ebest' = ebest]_vars

\* the first neighbor was adopted without being a new best, the second one is
\* the new best and was rejected
AdoptedNotBestThenBestNotAdopted ==
    /\ pc = "loop" /\ k = 2
    /\ s \notin Seeds /\ e >= eseed
    /\ sbest = snew /\ ebest = enew /\ ebest < eseed
    /\ s # snew

StopsAtFirstEnergyAtTarget ==
    [][iters' = iters + 1 => evalMin * emax.den > emax.num]_vars

\* the States that differ from `state` in one field f at most, whose value is
\* the old one plus or minus m, 1 <= m <= 6, brought back into [0,31]
NeighborSet(state) ==
    {[state EXCEPT ![f] = IF @ + m > 31 THEN 31 ELSE IF @ + m < 0 THEN 0 ELSE @ + m] :
        f \in {"a", "b", "c", "d"}, m \in (1..6) \cup {0 - n : n \in 1..6}}

\* n equals `state` except in one field, moved by 1..6 up or down and clamped
IsSingleStep(state, n) ==
    \E f \in {"a", "b", "c", "d"} :
        /\ \A g \in {"a", "b", "c", "d"} \ {f} : n[g] = state[g]
        /\ \E m \in 1..6 :
             \/ n[f] = (IF state[f] + m > 31 THEN 31 ELSE state[f] + m)
             \/ n[f] = (IF state[f] - m < 0 THEN 0 ELSE state[f] - m)

\* what getNeightbor can return for `state`, over all the values of rand()
PossibleNeighbors(state) ==
    {getNeightbor(state, varToChange, increment, toAdd) :
        varToChange \in 0..3, increment \in BOOLEAN, toAdd \in 1..6}

BestNeverAboveWorking ==
    /\ [](pc \in {"loop", "done"} => ebest <= e)
    /\ [](pc \in {"loop", "done"} /\ file.ok => ebest = calcEnergy(file, sbest, size))
    /\ [][pc = "loop" /\ (sbest' # sbest \/ ebest' # ebest) =>
              sbest' = snew' /\ ebest' = enew' /\ enew' = calcEnergy(file, snew', size)]_vars

BestBelowWorking ==
    /\ pc = "loop" /\ k = 1 /\ file.ok
    /\ sbest = snew /\ ebest = enew
    /\ ebest < e /\ sbest # s

\* C27: when anneal returns before the budget is used up (k < kmax at the
\* exit), the energy of the best State it returns is at most emax.
EarlyExitReachedTarget ==
    pc = "done" /\ k < kmax =>
        /\ ret = sbest
        /\ ebest * emax.den <= emax.num
        /\ file.ok => calcEnergy(file, ret, size) * emax.den <= emax.num

EarlyExitAfterIterating ==
    /\ pc = "done" /\ kmax = MaxKmax /\ k = 1 /\ file.ok
    /\ eseed * emax.den > emax.num
    /\ ebest * emax.den <= emax.num
    /\ ret = snew

\* ------------------------------------------------- single calls of a function
AnnealIdle ==
    /\ pc = "off"
    /\ s = NoState /\ sbest = NoState /\ ret = NoState /\ snew = NoState /\ enew = 0
    /\ e = 0 /\ ebest = 0 /\ k = 0 /\ kmax = 0 /\ eseed = 0 /\ evalMin = 0 /\ iters = 0
    /\ emax = [num |-> 0, den |-> 1]
    /\ size = 0
    /\ file = [ok |-> FALSE, codes |-> <<>>]

\* ------------------------------------------------------------- getNeightbor
\* below the range, its two ends, inside it, above it (45: the seed of runAll)
FieldSamples == {-7, 0, 3, 31, 45}

FieldNames == <<"a", "b", "c", "d">>

InitNeighbor ==
    /\ AnnealIdle
    /\ shiftUB = "mask"
    /\ phase = "getNeightbor"
    /\ arg \in [a : FieldSamples, b : FieldSamples, c : FieldSamples, d : FieldSamples]
    /\ res = <<>>

CallGetNeightbor ==
    /\ phase = "getNeightbor"
    /\ \E varToChange \in 0..3, increment \in BOOLEAN, toAdd \in 1..6 :
         res' = [varToChange |-> varToChange, increment |-> increment, toAdd |-> toAdd,
                 out |-> getNeightbor(arg, varToChange, increment, toAdd)]
    /\ phase' = "returned"
    /\ UNCHANGED <<annealVars, shiftUB, arg>>

NextNeighbor ==
    CallGetNeightbor

SpecNeighbor == InitNeighbor /\ [][NextNeighbor]_vars

\* the value of field f after the step, before the bounds are enforced
Stepped(f) ==
    IF FieldNames[res.varToChange + 1] = f
    THEN IF res.increment THEN arg[f] + res.toAdd ELSE arg[f] - res.toAdd
    ELSE arg[f]

EnergySamples == {0, 1, 2, 20000, 30000}

\* positive temperatures num/den, +infinity (den = 0) being getTemp(0, kmax)
TempSamples ==
    {[num |-> 1, den |-> 1], [num |-> 100, den |-> 1], [num |-> 400, den |-> 3],
     [num |-> 536870912, den |-> 1], [num |-> 1073741824, den |-> 1], [num |-> 100, den |-> 0]}

\* t1 < t2 for two temperatures
TempLess(t1, t2) ==
    IF t1.den = 0 THEN FALSE
    ELSE IF t2.den = 0 THEN TRUE
    ELSE RatLess(t1.num, t1.den, t2.num, t2.den)

AcceptArgs ==
    [currentEnergy : EnergySamples, newEnergy : EnergySamples, temp : TempSamples]

InitAccept ==
    /\ AnnealIdle
    /\ shiftUB = "mask"
    /\ phase = "pOfAccept"
    /\ arg \in AcceptArgs \X AcceptArgs
    /\ res = <<>>

CallPOfAccept ==
    /\ phase = "pOfAccept"
    /\ res' = <<pOfAccept(arg[1].currentEnergy, arg[1].newEnergy, arg[1].temp),
                pOfAccept(arg[2].currentEnergy, arg[2].newEnergy, arg[2].temp)>>
    /\ phase' = "returned"
    /\ UNCHANGED <<annealVars, shiftUB, arg>>

NextAccept ==
    CallPOfAccept

SpecAccept == InitAccept /\ [][NextAccept]_vars

\* C5: pOfAccept returns exactly 1 whenever newEnergy < currentEnergy, for
\* any positive temperature.
AcceptImprovementIsOne ==
    phase = "returned" =>
        \A i \in 1..2 : arg[i].newEnergy < arg[i].currentEnergy => res[i] = POne

ImprovementAtFiniteTemp ==
    /\ phase = "returned"
    /\ arg[1].newEnergy < arg[1].currentEnergy
    /\ arg[1].temp.den # 0
    /\ res[1].cls = "one"

Gap(i) ==
    arg[i].newEnergy - arg[i].currentEnergy

RECURSIVE ValOf(_)
ValOf(w) ==
    IF w = {} THEN 0
    ELSE LET i == CHOOSE j \in w : TRUE
         IN  2^i + ValOf(w \ {i})

\* if (temp >= size): the branch of calcEnergy that prints "Error"
indexTooLarge(temp, size_) ==
    ValOf(temp) >= size_

\* the powers of two an int can hold
PowersOfTwo == {2^i : i \in 0..30}

\* non-negative hash values around every power of two
HashSamples ==
    {0, 2147483647} \cup UNION {{p - 1, p, p + 5, p + (p \div 2)} : p \in PowersOfTwo}

InitIndex ==
    /\ AnnealIdle
    /\ shiftUB = "mask"
    /\ phase = "indexFor"
    /\ arg \in [h : HashSamples, length : PowersOfTwo]
    /\ res = <<>>

CallIndexFor ==
    /\ phase = "indexFor"
    /\ LET temp == indexFor(BitsOf(arg.h), arg.length)
       IN  res' = [index |-> ValOf(temp), error |-> indexTooLarge(temp, arg.length)]
    /\ phase' = "returned"
    /\ UNCHANGED <<annealVars, shiftUB, arg>>

NextIndex ==
    CallIndexFor

SpecIndex == InitIndex /\ [][NextIndex]_vars

\* C14: for a table size that is a power of two and a non-negative hash value
\* h, indexFor returns h mod tableSize, a bucket index in [0, tableSize-1], so
\* the test temp >= size of calcEnergy fails.
IndexIsRemainder ==
    phase = "returned" =>
        /\ res.index = arg.h % arg.length
        /\ res.index >= 0 /\ res.index <= arg.length - 1
        /\ ~res.error

HashAboveTableSize ==
    /\ phase = "returned"
    /\ arg.length = 33554432 /\ arg.h > arg.length
    /\ res.index > 0 /\ res.index # arg.h

\* --------------------------------------------------------------- safteyHash
\* 32-bit codes: all ones, the top bit alone, one low bit, a mixed pattern
CodeSamples == {0..31, {31}, {0}, BitsOf(305419896)}

\* shift amounts of the seeds and of the neighbors' range, and 45 (a seed of
\* the unsigned int variant)
ShiftSamples == {0, 1, 3, 12, 31, 45}

\* one call with the same arguments of the unsigned long safteyHash and of the
\* unsigned int one
InitMix ==
    /\ AnnealIdle
    /\ shiftUB \in {"mask", "zero"}
    /\ phase = "safteyHash"
    /\ arg \in [code : CodeSamples, a : ShiftSamples, b : ShiftSamples,
                c : ShiftSamples, d : ShiftSamples]
    /\ res = <<>>

CallSafteyHash ==
    /\ phase = "safteyHash"
    /\ res' = [ulong |-> safteyHash(arg.code, arg.a, arg.b, arg.c, arg.d),
               uint |-> safteyHashUInt(arg.code, arg.a, arg.b, arg.c, arg.d)]
    /\ phase' = "returned"
    /\ UNCHANGED <<annealVars, shiftUB, arg>>

NextMix ==
    CallSafteyHash

SpecMix == InitMix /\ [][NextMix]_vars

\* logical right shift of a word of `width` bits, 0 from the width on
ZeroFillShift(h, n, width) ==
    IF n >= width THEN {} ELSE {i - n : i \in {j \in h : j >= n}}

MixOf(code, a, b, c, d, width) ==
    LET h == Xor(Xor(code, ZeroFillShift(code, a, width)), ZeroFillShift(code, b, width))
    IN  Xor(Xor(h, ZeroFillShift(h, c, width)), ZeroFillShift(h, d, width))

\* C15: for a 32-bit code and shift amounts a, b, c, d safteyHash returns
\* h XOR (h >> c) XOR (h >> d) with h = code XOR (code >> a) XOR (code >> b),
\* >> a zero-filling right shift that gives 0 when the amount is at or above
\* the word's width, in the unsigned long and in the unsigned int variant.
MixIsXorOfShifts ==
    phase = "returned" =>
        /\ res.ulong = MixOf(arg.code, arg.a, arg.b, arg.c, arg.d, UnsignedLongBits)
        /\ res.uint = MixOf(arg.code, arg.a, arg.b, arg.c, arg.d, UnsignedIntBits)

\* --------------------------------------------------------------- calcEnergy
EnergyStates == {State(20, 0, 1, 31), State(5, 10, 2, 23), State(20, 12, 7, 4), State(1, 0, 5, 5)}

EnergySizes == {2, 4}

EnergyFiles ==
    {[ok |-> o, codes |-> SequentialCodes(n)] : o \in BOOLEAN, n \in 0..MaxCodes}

NoCall == [state |-> NoState, size |-> 0]

\* Repeated calls of calcEnergy on one data source.  res.table is the table
\* the latest call built, res.seen what the first call with each (state, size)
\* returned, res.last the latest call and res.prev the call before it.
InitEnergy ==
    /\ AnnealIdle
    /\ shiftUB = "mask"
    /\ phase = "calcEnergy"
    /\ arg \in EnergyFiles
    /\ res = [table |-> EmptyRecord, seen |-> <<>>, last |-> NoCall, prev |-> NoCall,
              energy |-> 0, mean |-> [num |-> 0, den |-> 1], repeat |-> FALSE]

CallCalcEnergy ==
    /\ phase = "calcEnergy"
    /\ \E state \in EnergyStates, size_ \in EnergySizes :
         LET call == [state |-> state, size |-> size_]
             energy == calcEnergyAfter(res.table, arg, state, size_)
         IN  res' = [table |-> IF arg.ok
                               THEN recordAll(freshRecord(res.table), arg.codes, state, size_)
                               ELSE res.table,
                     seen |-> IF call \in DOMAIN res.seen THEN res.seen
                              ELSE [c \in DOMAIN res.seen \cup {call} |->
                                      IF c = call THEN energy ELSE res.seen[c]],
                     last |-> call,
                     prev |-> res.last,
                     energy |-> energy,
                     mean |-> calcEnergyMean(arg, state, size_),
                     repeat |-> call \in DOMAIN res.seen]
    /\ UNCHANGED <<annealVars, shiftUB, phase, arg>>

NextEnergy ==
    CallCalcEnergy

SpecEnergy == InitEnergy /\ [][NextEnergy]_vars

\* C6: a call of calcEnergy returns what the first call with the same code
\* sequence, State and table size returned, whichever States were evaluated
\* in between.
EnergyHistoryIndependent ==
    res.last # NoCall => res.energy = res.seen[res.last]

RepeatedAfterOtherState ==
    /\ res.repeat
    /\ res.prev # NoCall /\ res.prev.state # res.last.state
    /\ arg.ok /\ Len(arg.codes) = MaxCodes
    /\ res.energy > 0

\* C7: on a readable but empty code sequence calcEnergy returns 0 for every
\* State and table size, in the summing and in the averaging variant.
EmptySourceEnergyZero ==
    res.last # NoCall /\ arg.ok /\ arg.codes = <<>> =>
        /\ res.energy = 0
        /\ res.mean.den # 0 /\ res.mean.num = 0

\* C12: when the data source cannot be opened calcEnergy returns -1 and
\* records no code in the collision table; on a readable source the result is
\* never negative.
UnreadableGivesSentinel ==
    res.last # NoCall =>
        IF arg.ok THEN res.energy >= 0
        ELSE res.energy = -1 /\ res.table = EmptyRecord

UnreadableNonEmptySource ==
    /\ res.last # NoCall /\ res.prev # NoCall
    /\ ~arg.ok /\ Len(arg.codes) = MaxCodes
    /\ res.energy = -1

\* the bucket the j-th code of the latest call fell into
BucketOf(j) ==
    indexFor(safteyHash(arg.codes[j], res.last.state.a, res.last.state.b,
                        res.last.state.c, res.last.state.d), res.last.size)

BucketsHit ==
    {BucketOf(j) : j \in 1..Len(arg.codes)}

Occupancy(b) ==
    Cardinality({j \in 1..Len(arg.codes) : BucketOf(j) = b})

EnergyWithinBounds ==
    res.last # NoCall /\ arg.ok =>
        LET n == Len(arg.codes)
            T == res.last.size
        IN  /\ res.energy \in Int
            /\ res.energy >= (IF n - T > 0 THEN n - T ELSE 0)
            /\ res.energy <= (IF n - 1 > 0 THEN n - 1 ELSE 0)

MoreCodesThanBuckets ==
    /\ res.last # NoCall /\ arg.ok
    /\ Len(arg.codes) = MaxCodes /\ res.last.size = 2
    /\ res.energy = MaxCodes - 2

\* ------------------------------------------------- calcEnergy, step by step
\* One evaluation after the other of the States arg.states on arg.codes: the
\* read loop, then the summing loop over the table, then the return.
InitScenario ==
    /\ AnnealIdle
    /\ shiftUB = "mask"
    /\ phase = "read"
    /\ arg = [codes |-> SequentialCodes(1000), size |-> 1024,
              states |-> <<State(20, 0, 1, 31), State(5, 10, 2, 23)>>]
    /\ res = [run |-> 1, pos |-> 0, table |-> EmptyRecord, todo |-> {}, average |-> 0,
              energies |-> <<>>]

ReadCode ==
    /\ phase = "read"
    /\ res.pos < Len(arg.codes)
    /\ res' = [res EXCEPT !.pos = @ + 1,
                          !.table = recordCode(@, arg.codes[res.pos + 1], arg.states[res.run], arg.size)]
    /\ UNCHANGED <<annealVars, shiftUB, phase, arg>>

EndOfFile ==
    /\ phase = "read"
    /\ res.pos = Len(arg.codes)
    /\ phase' = "sum"
    /\ res' = [res EXCEPT !.todo = DOMAIN res.table, !.average = 0]
    /\ UNCHANGED <<annealVars, shiftUB, arg>>

SumEntry ==
    /\ phase = "sum"
    /\ res.todo # {}
    /\ LET i == CHOOSE j \in res.todo : TRUE
       IN  res' = [res EXCEPT !.todo = @ \ {i}, !.average = @ + res.table[i]]
    /\ UNCHANGED <<annealVars, shiftUB, phase, arg>>

ReturnEnergy ==
    /\ phase = "sum"
    /\ res.todo = {}
    /\ res' = [res EXCEPT !.energies = Append(@, res.average),
                          !.run = @ + 1, !.pos = 0, !.table = freshRecord(@)]
    /\ phase' = IF res.run < Len(arg.states) THEN "read" ELSE "done"
    /\ UNCHANGED <<annealVars, shiftUB, arg>>

NextScenario ==
    \/ ReadCode
    \/ EndOfFile
    \/ SumEntry
    \/ ReturnEnergy

SpecScenario == InitScenario /\ [][NextScenario]_vars

\* C9: on the codes 1..1000 with table size 1024 the energy of State
\* {20,0,1,31} differs from the energy of State {5,10,2,23}.
ScenarioEnergiesDiffer ==
    phase = "done" => res.energies[1] # res.energies[2]

ScenarioEvaluated ==
    phase = "done" /\ res.energies = <<999, 0>>

\* ------------------------------------------------------- getTemp on floats
\* A positive float is [m, x], the number m * 2^x with 2^23 <= m < 2^24;
\* +infinity is FloatInf.
FloatInf == [m |-> 0, x |-> 1024]

\* a/b as a' / b' * 2^e with 1 <= a'/b' < 2 (a, b positive, below 2^30)
RECURSIVE NormRatio(_, _, _)
NormRatio(a, b, ex) ==
    IF a < b THEN NormRatio(2 * a, b, ex - 1)
    ELSE IF a >= 2 * b THEN NormRatio(a, 2 * b, ex + 1)
    ELSE [a |-> a, b |-> b, e |-> ex]

\* n more bits of the quotient r/b, r < 2b: the bits as the number q, and
\* what is left of the dividend
RECURSIVE LongDiv(_, _, _, _)
LongDiv(r, b, n, q) ==
    IF n = 0 THEN [q |-> q, r |-> r]
    ELSE LET bit == IF r >= b THEN 1 ELSE 0
             rest == 2 * (r - bit * b)
             bits == 2 * q + bit
         IN  IF rest >= 0 /\ bits >= 0 THEN LongDiv(rest, b, n - 1, bits)
             ELSE [q |-> bits, r |-> rest]

\* [m, x] with m = 2^24 brought back to 24 bits
Renorm(m, x) ==
    IF m = 16777216 THEN [m |-> 8388608, x |-> x + 1] ELSE [m |-> m, x |-> x]

\* the float nearest to a/b, ties to even
RoundRatio(a, b) ==
    LET N == NormRatio(a, b, 0)
        D == LongDiv(N.a, N.b, 24, 0)
        guard == D.r >= N.b
        sticky == (IF guard THEN D.r - N.b ELSE D.r) # 0
        up == guard /\ (sticky \/ D.q % 2 = 1)
    IN  Renorm(IF up THEN D.q + 1 ELSE D.q, N.e - 23)

\* the conversion of an int argument to a float parameter
IntToFloat(n) ==
    RoundRatio(n, 1)

\* f / g on floats
FloatDiv(f, g) ==
    LET q == RoundRatio(f.m, g.m)
    IN  [m |-> q.m, x |-> q.x + f.x - g.x]

\* (float)(100.0 / (double) g): the quotient rounded to the 53 bits of a
\* double (its top 24 bits hi, the 29 bits below them lo), then to a float
HundredOver(g) ==
    LET N == NormRatio(100, g.m, 0)
        H == LongDiv(N.a, N.b, 24, 0)
        L == LongDiv(H.r, N.b, 29, 0)
        guard == L.r >= N.b
        sticky == (IF guard THEN L.r - N.b ELSE L.r) # 0
        up53 == guard /\ (sticky \/ L.q % 2 = 1)
        lo53 == IF up53 THEN L.q + 1 ELSE L.q
        lo == IF lo53 = 536870912 THEN 0 ELSE lo53
        hi == IF lo53 = 536870912 THEN H.q + 1 ELSE H.q
        up24 == hi < 16777216 /\ (lo > 268435456 \/ (lo = 268435456 /\ hi % 2 = 1))
    IN  Renorm(IF up24 THEN hi + 1 ELSE hi, N.e - g.x - 23)

\* the quotient taken the other way round
getTempFloat_Inverted(k_, kmax_) ==
    IF k_ = 0 THEN FloatInf
    ELSE HundredOver(FloatDiv(IntToFloat(kmax_), IntToFloat(k_)))

\* float getTemp(float k, float kmax) { return 100.0 / (k / kmax); }
getTempFloat(k_, kmax_) ==
    IF k_ = 0 THEN FloatInf
    ELSE HundredOver(FloatDiv(IntToFloat(k_), IntToFloat(kmax_)))

\* f < g
FloatLess(f, g) ==
    IF f = FloatInf THEN FALSE
    ELSE IF g = FloatInf THEN TRUE
    ELSE f.x < g.x \/ (f.x = g.x /\ f.m < g.m)

\* iteration budgets: the first ones, the one every caller passes (100), and
\* 2^24 and 2^25, where an int stops being exact as a float
TempBudgets == {1, 2, 3, 4, 100, 16777216, 33554432}

TempCounts ==
    (0..99) \cup {10488049, 16777214, 16777215, 16777216, 33554430, 33554431}

\* getTemp at two successive counts of one run: res[1] for k, res[2] for k + 1
InitTemp ==
    /\ AnnealIdle
    /\ shiftUB = "mask"
    /\ phase = "getTemp"
    /\ arg \in {call \in [k : TempCounts, kmax : TempBudgets] : call.k < call.kmax}
    /\ res = <<>>

CallGetTemp ==
    /\ phase = "getTemp"
    /\ res' = <<getTempFloat(arg.k, arg.kmax), getTempFloat(arg.k + 1, arg.kmax)>>
    /\ phase' = "returned"
    /\ UNCHANGED <<annealVars, shiftUB, arg>>

NextTemp ==
    CallGetTemp

SpecTemp == InitTemp /\ [][NextTemp]_vars

\* the float nearest to 100 * kmax / k
NearestTemp(k_, kmax_) ==
    LET q == RoundRatio(25 * kmax_, k_)
    IN  [m |-> q.m, x |-> q.x + 2]

\* f and g are the same float or two neighbouring floats
WithinOneUlp(f, g) ==
    \/ f.x = g.x /\ f.m - g.m \in {-1, 0, 1}
    \/ f.x = g.x + 1 /\ f.m = 8388608 /\ g.m = 16777215
    \/ g.x = f.x + 1 /\ g.m = 8388608 /\ f.m = 16777215

TempAboveHundred ==
    phase = "returned" => FloatLess(IntToFloat(100), res[1])

\* C25: at the first iteration, k = 0, the temperature 100 / (0 / kmax) is
\* +infinity, and at that temperature pOfAccept is 1 for every neighbor,
\* however much higher its energy is than the current one.
FirstIterationAcceptanceIsOne ==
    /\ \A kmax_ \in 1..MaxKmax :
           getTemp(0, kmax_).den = 0 /\ getTempFloat(0, kmax_) = FloatInf
    /\ phase = "returned" =>
           \A i \in 1..2 : arg[i].temp.den = 0 => res[i] = POne

MuchWorseAtInfiniteTemp ==
    /\ phase = "returned"
    /\ arg[1].temp = getTemp(0, 1)
    /\ arg[1].currentEnergy = 0 /\ arg[1].newEnergy = 30000
    /\ res[1] = POne

\* ------------------------------------------------------- anneal, run twice
\* Two runs of anneal side by side, given the same arguments, the same "hashed"
\* file and, at each iteration, the same outcomes of the four rand() calls.
\* What the runs do not share is what is not an input: the memory the collision
\* table is built in (res.one starts in a fresh process, res.two where an
\* earlier evaluation left a table).
Draws ==
    [varToChange : 0..3, increment : BOOLEAN, toAdd : 1..6, random : RandomSamples]

\* the table calcEnergy leaves behind
tableAfter(leftover, f, state, size_) ==
    IF f.ok THEN recordAll(freshRecord(leftover), f.codes, state, size_) ELSE leftover

\* what calcEnergy returns when its read loop has built the table rec
energyFrom(f, rec) ==
    IF ~f.ok THEN IOSentinel ELSE sumRecord(rec)

\* a run before line 104
RunAt(seed, leftover) ==
    [pc |-> "start", s |-> seed, e |-> 0, sbest |-> NoState, ebest |-> 0, k |-> 0,
     table |-> leftover, ret |-> NoState]

InitReplay ==
    /\ AnnealIdle
    /\ shiftUB = "mask"
    /\ phase = "anneal"
    /\ arg \in [seed : Seeds, kmax : 0..MaxKmax, emax : EmaxChoices, size : TableSizes,
                file : {f \in CodeFiles : Len(f.codes) > 1}]
    /\ \E earlier \in Seeds \cup {NoState} :
         res = [one |-> RunAt(arg.seed, EmptyRecord),
                two |-> RunAt(arg.seed,
                              IF earlier = NoState THEN EmptyRecord
                              ELSE tableAfter(EmptyRecord, arg.file, earlier, arg.size))]

\* lines 104-113 for the run r
runStart(r) ==
    LET table == tableAfter(r.table, arg.file, arg.seed, arg.size)
        energy == energyFrom(arg.file, table)
    IN  [r EXCEPT !.pc = "loop", !.s = arg.seed, !.e = energy, !.sbest = arg.seed,
                  !.ebest = energy, !.k = 0, !.table = table]

\* the guard of line 119 for the run r
runContinues(r) == r.k < arg.kmax /\ AboveTarget(r.e, arg.emax)

\* lines 125-171 for the run r with the draws d
runBody(r, d) ==
    LET T == getTemp(r.k, arg.kmax)
        neighbor == getNeightbor(r.s, d.varToChange, d.increment, d.toAdd)
        table == tableAfter(r.table, arg.file, neighbor, arg.size)
        energy == energyFrom(arg.file, table)
        adopted == PLess(d.random, pOfAccept(r.e, energy, T))
        best == isNewBest(energy, r.ebest)
    IN  [r EXCEPT !.s = IF adopted THEN neighbor ELSE @,
                  !.e = IF adopted THEN energy ELSE @,
                  !.sbest = IF best THEN neighbor ELSE @,
                  !.ebest = IF best THEN energy ELSE @,
                  !.k = nextCount(@),
                  !.table = table]

\* line 175 for the run r
runReturn(r) == [r EXCEPT !.pc = "done", !.ret = annealResult(r.s, r.sbest)]

\* the next step of the run r when the iteration's draws are d
runStep(r, d) ==
    IF r.pc = "start" THEN runStart(r)
    ELSE IF r.pc = "loop" /\ runContinues(r) THEN runBody(r, d)
    ELSE IF r.pc = "loop" THEN runReturn(r)
    ELSE r

ReplayStart ==
    /\ phase = "anneal" /\ res.one.pc = "start"
    /\ res' = [one |-> runStart(res.one), two |-> runStart(res.two)]
    /\ UNCHANGED <<annealVars, shiftUB, phase, arg>>

ReplayIterate ==
    /\ phase = "anneal" /\ res.one.pc = "loop" /\ runContinues(res.one)
    /\ \E d \in Draws : res' = [one |-> runBody(res.one, d), two |-> runStep(res.two, d)]
    /\ UNCHANGED <<annealVars, shiftUB, phase, arg>>

ReplayReturn ==
    /\ phase = "anneal" /\ res.one.pc = "loop" /\ ~runContinues(res.one)
    /\ \E d \in Draws : res' = [one |-> runReturn(res.one), two |-> runStep(res.two, d)]
    /\ phase' = "returned"
    /\ UNCHANGED <<annealVars, shiftUB, arg>>

NextReplay ==
    \/ ReplayStart
    \/ ReplayIterate
    \/ ReplayReturn

SpecReplay == InitReplay /\ [][NextReplay]_vars

\* what the claim compares of a run
Observed(r) == <<r.pc, r.k, r.s, r.e, r.sbest, r.ebest, r.ret>>

\* C30: two runs of anneal with the same seed, kmax, emax, table size, code
\* sequence and rand() outputs go through the same values of
\* (k, s, e, sbest, ebest), stop at the same step and return the same State.
SameInputsSameRun == Observed(res.two) = Observed(res.one)

TwinRunsIteratedAndReturned ==
    /\ phase = "returned"
    /\ arg.kmax = MaxKmax /\ res.one.k = MaxKmax /\ res.two.k = MaxKmax
    /\ res.one.ret # arg.seed /\ res.two.ret = res.one.ret
    /\ res.one.s # res.one.sbest

\* ------------------------------------------------------------ main, runOne
\* What the program writes and runs is a sequence of events [kind, name].
Event(kind, name) ==
    [kind |-> kind, name |-> name]

\* "/usr/share/dict/words"
WordsFile == "words"

\* filesOk: the words file can be read and "hashed" can be written
hashFile(filesOk, fileName, bad) ==
    IF ~filesOk THEN <<Event("fileError", fileName)>>
    ELSE <<Event("hashed", IF bad THEN "badHashCode" ELSE "hashCode")>>

largeTest == <<Event("test", "large")>>

medTest == <<Event("test", "medium")>>

smallTest == <<Event("test", "small")>>

noLog == largeTest \o medTest \o smallTest

\* the result of the first hashFile is ignored
runAll(filesOk) ==
    hashFile(filesOk, WordsFile, FALSE) \o largeTest \o medTest \o smallTest
        \o hashFile(filesOk, WordsFile, TRUE) \o medTest

\* cout << "Error: could not find test '" + test + "'\n"
unknownTest(test) ==
    <<Event("unknownTest", test)>>

runOne(test, filesOk) ==
    hashFile(filesOk, WordsFile, FALSE) \o
        IF ~filesOk THEN <<>>
        ELSE CASE test = "small" -> smallTest
               [] test = "medium" -> medTest
               [] test = "large" -> largeTest
               [] test = "bad" -> hashFile(filesOk, WordsFile, TRUE) \o runAll(filesOk)
               [] test = "nolog" -> noLog
               [] OTHER -> unknownTest(test)

KnownTests == {"small", "medium", "large", "bad", "nolog"}

ArgWords == KnownTests \cup {"all", "bogus"}

CommandLines ==
    UNION {[1..n -> ArgWords] : n \in 0..MaxArgs}

\* arg: the command line after argv[0] and the state of the files; res.i: the
\* arguments runOne has been called with; res.out: the events so far
InitMain ==
    /\ AnnealIdle
    /\ shiftUB = "mask"
    /\ phase = "main"
    /\ arg \in [argv : CommandLines, filesOk : BOOLEAN]
    /\ res = [i |-> 0, out |-> <<>>]

MainNoArgs ==
    /\ phase = "main"
    /\ arg.argv = <<>>
    /\ res' = [res EXCEPT !.out = <<Event("learned", ""), Event("usage", "")>>]
    /\ phase' = "exited"
    /\ UNCHANGED <<annealVars, shiftUB, arg>>

MainAll ==
    /\ phase = "main"
    /\ arg.argv = <<"all">>
    /\ res' = [res EXCEPT !.out = runAll(arg.filesOk)]
    /\ phase' = "exited"
    /\ UNCHANGED <<annealVars, shiftUB, arg>>

\* one pass of the for loop of main: one call of runOne
MainRunOne ==
    /\ \/ phase = "main" /\ arg.argv # <<>> /\ arg.argv # <<"all">>
       \/ phase = "loop"
    /\ res.i < Len(arg.argv)
    /\ res' = [i |-> res.i + 1, out |-> res.out \o runOne(arg.argv[res.i + 1], arg.filesOk)]
    /\ phase' = "loop"
    /\ UNCHANGED <<annealVars, shiftUB, arg>>

MainReturn ==
    /\ phase = "loop"
    /\ res.i = Len(arg.argv)
    /\ phase' = "exited"
    /\ UNCHANGED <<annealVars, shiftUB, arg, res>>

NextMain ==
    \/ MainNoArgs
    \/ MainAll
    \/ MainRunOne
    \/ MainReturn

SpecMain == InitMain /\ [][NextMain]_vars

\* C17: every call of runOne with a name that is none of small, medium, large,
\* bad, nolog writes an error that names it, and main goes on: it has called
\* runOne with every argument when it returns.
UnknownTestReported ==
    /\ phase \in {"loop", "exited"} =>
          \A j \in 1..res.i :
              arg.argv[j] \notin KnownTests =>
                  \E m \in 1..Len(res.out) : res.out[m] = Event("unknownTest", arg.argv[j])
    /\ phase = "exited" /\ arg.argv # <<>> /\ arg.argv # <<"all">> => res.i = Len(arg.argv)

\* ----------------------------------------------------------------- hashCode
\* An unsigned int is kept as two 16-bit halves, hi * 2^16 + lo.
U32(hi, lo) ==
    [hi |-> hi, lo |-> lo]

\* a char converted to unsigned int (a negative char wraps modulo 2^32)
CharToU32(c) ==
    IF c >= 0 THEN U32(0, c) ELSE U32(65535, 65536 + c)

\* 31 * h + c in unsigned int arithmetic
hashStep_NoMultiplier(h, c) ==
    LET cu == CharToU32(c)
        lo == h.lo + cu.lo
        hi == h.hi + cu.hi + lo \div 65536
    IN  U32(hi % 65536, lo % 65536)

hashStep(h, c) ==
    LET cu == CharToU32(c)
        lo == 31 * h.lo + cu.lo
        hi == 31 * h.hi + cu.hi + lo \div 65536
    IN  U32(hi % 65536, lo % 65536)

RECURSIVE hashFrom(_, _)
hashFrom(h, word) ==
    IF word = <<>> THEN h ELSE hashFrom(hashStep(h, Head(word)), Tail(word))

hashCode(word) ==
    hashFrom(U32(0, 0), word)

\* the values a char of a word can have: 'a', 'z', and the byte 0xC3 of a
\* UTF-8 word where char is signed (-61) and where it is unsigned (195)
CharCodes == {97, 122, -61, 195}

WordsOfLen(n) ==
    [1..n -> CharCodes]

Words ==
    UNION {WordsOfLen(n) : n \in 0..MaxWordLen}

InitHash ==
    /\ AnnealIdle
    /\ shiftUB = "mask"
    /\ phase = "hashCode"
    /\ arg \in Words
    /\ res = <<>>

CallHashCode ==
    /\ phase = "hashCode"
    /\ res' = hashCode(arg)
    /\ phase' = "returned"
    /\ UNCHANGED <<annealVars, shiftUB, arg>>

NextHash ==
    CallHashCode

SpecHash == InitHash /\ [][NextHash]_vars

\* Exact natural-number arithmetic for the polynomial: a natural is the
\* sequence of its base-65536 digits, least significant first.
RECURSIVE NatTimes(_, _, _)
NatTimes(x, m, carry) ==
    IF x = <<>> THEN (IF carry = 0 THEN <<>> ELSE <<carry>>)
    ELSE LET v == Head(x) * m + carry
         IN  <<v % 65536>> \o NatTimes(Tail(x), m, v \div 65536)

RECURSIVE NatPlus(_, _, _)
NatPlus(x, y, carry) ==
    IF x = <<>> /\ y = <<>> THEN (IF carry = 0 THEN <<>> ELSE <<carry>>)
    ELSE LET a == IF x = <<>> THEN 0 ELSE Head(x)
             b == IF y = <<>> THEN 0 ELSE Head(y)
             v == a + b + carry
         IN  <<v % 65536>> \o NatPlus(IF x = <<>> THEN x ELSE Tail(x),
                                      IF y = <<>> THEN y ELSE Tail(y), v \div 65536)

\* c * 31^j
RECURSIVE NatTerm(_, _)
NatTerm(c, j) ==
    IF j = 0 THEN <<c>> ELSE NatTimes(NatTerm(c, j - 1), 31, 0)

\* the sum of |s[i]| * 31^(n-i) over the characters of the given sign
RECURSIVE PolySum(_, _, _)
PolySum(word, i, positive) ==
    IF i > Len(word) THEN <<>>
    ELSE LET c == word[i]
             term == IF positive /\ c > 0 THEN NatTerm(c, Len(word) - i)
                     ELSE IF ~positive /\ c < 0 THEN NatTerm(0 - c, Len(word) - i)
                     ELSE <<>>
         IN  NatPlus(term, PolySum(word, i + 1, positive), 0)

Digit(x, i) ==
    IF i <= Len(x) THEN x[i] ELSE 0

\* s[0]*31^(n-1) + ... + s[n-1] reduced modulo 2^32
PolyMod32(word) ==
    LET pos == PolySum(word, 1, TRUE)
        neg == PolySum(word, 1, FALSE)
        lo == Digit(pos, 1) - Digit(neg, 1)
        hi == Digit(pos, 2) - Digit(neg, 2) - (IF lo < 0 THEN 1 ELSE 0)
    IN  U32(hi % 65536, lo % 65536)

\* C8: hashCode(word) is the polynomial s[0]*31^(n-1) + ... + s[n-1] reduced
\* modulo 2^32, and 0 for the empty string.
HashIsPolynomial ==
    phase = "returned" =>
        /\ res = PolyMod32(arg)
        /\ arg = <<>> => res = U32(0, 0)

\* a word of letters whose polynomial exceeds 2^32
HashWrapped ==
    /\ phase = "returned"
    /\ Len(arg) = MaxWordLen
    /\ \A i \in 1..Len(arg) : arg[i] \in {97, 122}
    /\ Len(PolySum(arg, 1, TRUE)) > 2
====
